---- MODULE Spec2Model ----
(***************************************************************************)
(* SNMP traffic monitor (monitor_snmp.py).                                 *)
(*                                                                         *)
(* The program is a Streamlit script: every user event (a button click, a  *)
(* widget change) and every st.rerun() executes the script once from top   *)
(* to bottom against the persistent store st.session_state.  One script    *)
(* run is modelled as two consecutive steps, tracked by pc:                *)
(*   pc = "wait"    -> the run's upper half, lines 129-206: the handler of *)
(*                     the one clicked button and the widgets;             *)
(*   pc = "monitor" -> the run's lower half, lines 208-278: the monitoring *)
(*                     tick, or the post-stop render and CSV export.       *)
(*                                                                         *)
(* A run does not always reach its end.  Streamlit looks for a pending     *)
(* user event at every read and write of st.session_state and at every     *)
(* call that puts something on the page, and ends the run there when one   *)
(* has arrived; the run of that event then starts from line 129.  A half   *)
(* of a run is therefore a sequence of steps of which a prefix is done.    *)
(*                                                                         *)
(* Time is in microseconds (the resolution of datetime); rates are in      *)
(* hundredths of Mbps (the two decimals kept by round(x, 2)); delta_time   *)
(* is in milliseconds (the three decimals kept by round(x, 3)); a value a  *)
(* chart displays is in hundred-thousandths of the chart's unit.           *)
(***************************************************************************)
EXTENDS Integers, Sequences, FiniteSets, TLC

\* ------------------------------------------------------------------------
\* Bounds of the model
\* ------------------------------------------------------------------------

\* ticks are accepted only while the window holds fewer samples than this
MaxSamples == 2

\* the slider "Pontos no grafico" (5..300 in the source), scaled down so that
\* a window longer than the slider value is within MaxSamples
SliderMin == 1

SliderMax == 2

\* the longest batch of samples plot_graph is called with on its own
MaxBatch == 2

\* user events end at most this many runs before their last step
MaxCuts == 1

\* ------------------------------------------------------------------------
\* Program constants
\* ------------------------------------------------------------------------

\* time_diff < 0.5 (seconds), in microseconds
MinElapsed == 500000

\* time_diff > 3 (seconds), in microseconds
MaxElapsed == 3000000

\* max_val >= 1000 (Mbps), in hundredths of Mbps
GbpsThreshold == 100000

\* factor = 1000
GbpsFactor == 1000

\* ------------------------------------------------------------------------
\* Values
\* ------------------------------------------------------------------------

\* Python's None
None == [type |-> "NoneType"]

\* datetime.now(): a wall-clock instant, microseconds since midnight of day 0
datetime(us) == [type |-> "datetime", us |-> us]

\* the instants the wall clock is read at.  The clock is the wall clock, so
\* successive reads are not ordered: 0 -> 500000 and 500000 -> 3500000 are the
\* two ends of the accepted interval, 0 -> 3500000 is too long, and a read
\* that is not later than the one before is too short.
Clock == {0, 500000, 3500000}

\* the pairs (ifHCInOctets, ifHCOutOctets) an agent reports: between two
\* readings the inbound counter goes up, stays, or goes down (a reset or a
\* wrap), and the outbound counter stays
Counters == {<<0, 0>>, <<62500, 0>>}

\* strings as sequences of characters
Ip(a, b, c, d) == a \o <<".">> \o b \o <<".">> \o c \o <<".">> \o d

IpA == Ip(<<"1", "0">>, <<"0">>, <<"0">>, <<"1">>)

IpB == Ip(<<"1", "0">>, <<"0">>, <<"0">>, <<"2">>)

IpC == Ip(<<"1", "0">>, <<"0">>, <<"0">>, <<"3">>)

IpBad == Ip(<<"1", "0">>, <<"0">>, <<"0">>, <<"2", "5", "6">>)

\* a host name, which an SNMP session takes as well as an address
HostName == <<"g", "w">>

\* what the user may have typed in "IP do equipamento" when Listar is clicked:
\* the address of an agent with interfaces, that of one with none, an address
\* out of range and a host name
IpInputs == {IpA, IpC, IpBad, HostName}

\* ------------------------------------------------------------------------
\* is_valid_ip (lines 37-41)
\* ------------------------------------------------------------------------

Digits == {"0", "1", "2", "3", "4", "5", "6", "7", "8", "9"}

DigitValue(c) == CASE c = "0" -> 0 [] c = "1" -> 1 [] c = "2" -> 2 [] c = "3" -> 3
                   [] c = "4" -> 4 [] c = "5" -> 5 [] c = "6" -> 6 [] c = "7" -> 7
                   [] c = "8" -> 8 [] c = "9" -> 9

\* str.split('.'): the parts between the dots, empty parts included
RECURSIVE SplitDots(_)
SplitDots(s) ==
    IF \A i \in 1..Len(s) : s[i] # "."
    THEN <<s>>
    ELSE LET k == CHOOSE i \in 1..Len(s) : s[i] = "." /\ \A j \in 1..(i - 1) : s[j] # "."
         IN  <<SubSeq(s, 1, k - 1)>> \o SplitDots(SubSeq(s, k + 1, Len(s)))

\* (?:[0-9]{1,3}\.){3}[0-9]{1,3} against the whole of s
FourGroups(s) ==
    LET parts == SplitDots(s)
    IN  /\ Len(parts) = 4
        /\ \A i \in 1..4 : /\ Len(parts[i]) \in 1..3
                           /\ \A j \in 1..Len(parts[i]) : parts[i][j] \in Digits

\* re.match(r"^...$", s): "$" matches at the end of the string and also just
\* before a newline that is the string's last character
PatternMatches(s) ==
    \/ FourGroups(s)
    \/ /\ Len(s) > 0
       /\ s[Len(s)] = "\n"
       /\ FourGroups(SubSeq(s, 1, Len(s) - 1))

\* int(part): surrounding whitespace is ignored (here: the one trailing
\* newline the pattern lets through), the rest is read in base 10
RECURSIVE IntOfDigits(_)
IntOfDigits(d) ==
    IF Len(d) = 0 THEN 0
    ELSE 10 * IntOfDigits(SubSeq(d, 1, Len(d) - 1)) + DigitValue(d[Len(d)])

int(part) ==
    IF Len(part) > 0 /\ part[Len(part)] = "\n"
    THEN IntOfDigits(SubSeq(part, 1, Len(part) - 1))
    ELSE IntOfDigits(part)

is_valid_ip(ip_address) ==
    IF ~PatternMatches(ip_address)
    THEN FALSE
    ELSE LET parts == SplitDots(ip_address)
         IN  \A i \in 1..Len(parts) : 0 <= int(parts[i]) /\ int(parts[i]) <= 255

\* ------------------------------------------------------------------------
\* The devices (external): what an SNMP agent answers
\* ------------------------------------------------------------------------

\* get_snmp_session (lines 10-11)
get_snmp_session(ip) == [type |-> "Session", hostname |-> ip]

\* get_interfaces (lines 14-23): the dict ifIndex -> display name built from
\* the two walks; a dict over the indexes 1..n is a sequence, {} is << >>.
\* The agent at IpA has two interfaces, the one at IpB has one and the one
\* at IpC reports none; the host named HostName has an agent with one.
get_interfaces(session) ==
    IF session.hostname = IpA THEN <<"eth0 (uplink)", "eth1">>
    ELSE IF session.hostname = IpB THEN <<"eth0 (uplink)">>
    ELSE IF session.hostname = HostName THEN <<"lan0">>
    ELSE << >>

\* the outcome of get_traffic_in_out (lines 26-34): the two counters, or an
\* exception (timeout, no such instance, no session)
Reading(oct_in, oct_out) == [ok |-> TRUE, oct_in |-> oct_in, oct_out |-> oct_out]

FetchFailed == [ok |-> FALSE]

\* get_traffic_in_out on the stored session: session.get on None raises
get_traffic_in_out(session, answer) ==
    IF session = None THEN FetchFailed ELSE answer

\* ------------------------------------------------------------------------
\* Conversions of the monitoring tick
\* ------------------------------------------------------------------------

\* The tick computes in binary floating point (Python float: 53 significant
\* bits, every operation rounded to the nearest, ties to even) and rounds
\* the result once with round(x, ndigits), which is exact on the float it is
\* given.  The float is so near the exact quotient that the two round to the
\* same decimal unless the exact quotient lies half way between two of them;
\* there the side the float fell on decides.

\* the largest k, negative when n < d, with 2^k * d <= n
RECURSIVE FloorLog2(_, _)
FloorLog2(n, d) ==
    IF n >= d
    THEN IF 2 * d <= n THEN 1 + FloorLog2(n, 2 * d) ELSE 0
    ELSE FloorLog2(2 * n, d) - 1

RECURSIVE Pow2(_)
Pow2(k) == IF k = 0 THEN 1 ELSE 2 * Pow2(k - 1)

\* (r * 2^e) % m
RECURSIVE ScaledMod(_, _, _)
ScaledMod(r, m, e) == IF e = 0 THEN r % m ELSE ScaledMod((2 * r) % m, m, e - 1)

\* the float n / d of two positive integers against the exact quotient:
\* with e the scale that puts the quotient's 53 bits before the point, the
\* float is (n + sign * off / 2^e) / d
FloatQuotient(n, d) ==
    LET e    == 52 - FloorLog2(n, d)
        r2   == ScaledMod(n % (2 * d), 2 * d, e)
        rem  == r2 % d
        odd  == r2 >= d
        up   == 2 * rem > d \/ (2 * rem = d /\ odd)
    IN  IF rem = 0 THEN [sign |-> 0, off |-> 0, e |-> e]
        ELSE IF up THEN [sign |-> 1, off |-> d - rem, e |-> e]
        ELSE [sign |-> -1, off |-> rem, e |-> e]

\* timedelta.total_seconds(), line 230: the float us / 10^6
total_seconds(us) == FloatQuotient(us, 1000000)

\* time_diff * 1_000_000, lines 249-250: -1, 0 or 1 as the float product is
\* below, at or above the integer us.  The exact product is us + sign * off
\* / 2^e; it is rounded to the floats next to us, which are 2^(p - 52)
\* apart (half that below a power of two)
Microseconds(us) ==
    LET t == total_seconds(us)
        p == FloorLog2(us, 1)
        h == t.e + p - 53 - (IF t.sign < 0 /\ us = Pow2(p) THEN 1 ELSE 0)
    IN  IF t.sign = 0 THEN 0
        ELSE IF h < 0 THEN t.sign
        ELSE IF h > 30 THEN 0
        ELSE IF t.off > Pow2(h) THEN t.sign ELSE 0

\* round() of a float that is q + 1/2 exactly: to the even neighbour
HalfEven(q) == IF q % 2 = 0 THEN q ELSE q + 1

\* variant: the hundredths are cut off, not rounded
MbpsTruncated(diff, us) == (diff * 800) \div us

\* round((diff * 8) / (time_diff * 1_000_000), 2), lines 249-255, in
\* hundredths of Mbps: time_diff seconds are us / 10^6, so the quotient is
\* diff * 8 / us and its hundredths are diff * 800 / us
Mbps(diff, us) ==
    LET q == (diff * 800) \div us
        r == (diff * 800) % us
        b == Microseconds(us)
        x == FloatQuotient(diff * 8, us)
    IN  IF 2 * r < us THEN q
        ELSE IF 2 * r > us THEN q + 1
        ELSE IF b > 0 THEN q
        ELSE IF b < 0 THEN q + 1
        ELSE IF x.sign = 0 THEN HalfEven(q)
        ELSE IF x.sign > 0 THEN q + 1 ELSE q

\* round(time_diff, 3), line 258, in milliseconds
DeltaTime(us) ==
    LET q == us \div 1000
        r == us % 1000
        t == total_seconds(us)
    IN  IF 2 * r < 1000 THEN q
        ELSE IF 2 * r > 1000 THEN q + 1
        ELSE IF t.sign = 0 THEN HalfEven(q)
        ELSE IF t.sign > 0 THEN q + 1 ELSE q

\* current_time.strftime("%H:%M:%S"), line 253: the time of day, to the
\* second below; the date is dropped
strftime(t) ==
    LET sec == t.us \div 1000000
    IN  <<(sec \div 3600) % 24, (sec \div 60) % 60, sec % 60>>

\* variant: the slice taken from the front, df[:num_points]
LastRowsFromFront(traffic_data, num_points) ==
    IF Len(traffic_data) <= num_points
    THEN traffic_data
    ELSE SubSeq(traffic_data, 1, num_points)

\* pd.DataFrame(traffic_data)[-num_points:], lines 261 and 272: the last
\* num_points rows (all of them when there are no more than that)
LastRows(traffic_data, num_points) ==
    IF num_points = 0 \/ Len(traffic_data) <= num_points
    THEN traffic_data
    ELSE SubSeq(traffic_data, Len(traffic_data) - num_points + 1, Len(traffic_data))

\* df.to_csv(index=False), lines 276-277: one row per sample, in the order
\* and with the six columns of the stored dicts
to_csv(traffic_data) ==
    [i \in 1..Len(traffic_data) |->
        <<traffic_data[i].timestamp, traffic_data[i].in, traffic_data[i].out,
          traffic_data[i].oct_in, traffic_data[i].oct_out, traffic_data[i].delta_time>>]

\* ------------------------------------------------------------------------
\* st.session_state and the button handlers
\* ------------------------------------------------------------------------

\* lines 129-139.  first_collection_skipped starts as {} and is only ever
\* tested with "not": {} is falsy, so it starts FALSE.
InitialSessionState ==
    [interfaces               |-> << >>,
     session                  |-> None,
     monitoring               |-> FALSE,
     traffic_data             |-> << >>,
     prev_in                  |-> 0,
     prev_out                 |-> 0,
     first_collection_skipped |-> FALSE,
     prev_time                |-> None]

\* A run is a sequence of steps, each of them one statement that begins with
\* a place where Streamlit looks for a pending user event: every read and
\* every write of st.session_state, and every call that puts something on
\* the page.  When an event has arrived by then the run ends there, before
\* the statement has done anything, and the run of the event starts from
\* line 129.  A read that does nothing else is a step only where no other
\* step follows it.

\* st.session_state.key = value
Set(key, value) == [op |-> "set", key |-> key, value |-> value]

\* a read of st.session_state with nothing after it
Get == [op |-> "get"]

\* st.warning(text), st.error(text)
Say(text) == [op |-> "say", text |-> text]

\* variant: the address is used as it was typed
ListarUnchecked(ip, answers) ==
    IF ~answers THEN << >>
    ELSE LET session    == get_snmp_session(ip)
             interfaces == get_interfaces(session)
         IN  IF interfaces = << >> THEN << >>
             ELSE <<Set("session", session), Set("interfaces", interfaces)>>

\* "Listar interfaces", lines 161-175: the writes of lines 172-173;
\* answers = FALSE when the walk raises
Listar(ip, answers) ==
    IF ~is_valid_ip(ip) THEN << >>
    ELSE IF ~answers THEN << >>
    ELSE LET session    == get_snmp_session(ip)
             interfaces == get_interfaces(session)
         IN  IF interfaces = << >> THEN << >>
             ELSE <<Set("session", session), Set("interfaces", interfaces)>>

\* "Limpar", lines 178-181
Limpar ==
    <<Set("interfaces", << >>),
      Set("session", None),
      Set("monitoring", FALSE),
      Set("traffic_data", << >>)>>

\* "Iniciar", lines 195-197
Iniciar ==
    <<Set("monitoring", TRUE),
      Set("traffic_data", << >>),
      Set("first_collection_skipped", FALSE)>>

\* variant: stopping also drops the samples
PararClears == <<Set("monitoring", FALSE), Set("traffic_data", << >>)>>

\* "Parar", line 202
Parar == <<Set("monitoring", FALSE)>>

\* line 186: the first index whose display name is the selected one
selected_index(interfaces, selected_name) ==
    CHOOSE k \in DOMAIN interfaces :
        /\ interfaces[k] = selected_name
        /\ \A j \in DOMAIN interfaces : interfaces[j] = selected_name => k <= j

\* ------------------------------------------------------------------------
\* The lower half of the script, lines 208-278
\* ------------------------------------------------------------------------

\* plot_graph(df, ...), lines 44-104, on a df that is not empty: the rows
\* drawn; num_points is the slider value the rows were cut with
Chart(df, num_points) == [rows |-> df, num_points |-> num_points]

\* get_traffic_in_out, line 210, after the read of st.session_state.session
Fetch(fetch) == [op |-> "fetch", result |-> IF fetch.ok THEN "ok" ELSE "failed"]

\* st.session_state.traffic_data.append(sample), line 252
AppendSample(sample) == [op |-> "append", sample |-> sample]

\* chart_container.plotly_chart, line 104
Draw(chart) == [op |-> "draw", chart |-> chart]

\* the statistics, fig.to_image and the PNG button, lines 107-126
Export == [op |-> "export"]

\* st.download_button of the CSV, line 278
Offer(csv) == [op |-> "offer", csv |-> csv]

\* what fig.to_image (line 120) does at the first and at the second call of
\* a run: it returns (TRUE) or it raises (FALSE), as plotly does without
\* the kaleido package.  A run whose first call returns makes no second.
ToImage == {<<TRUE, TRUE>>, <<FALSE, TRUE>>, <<FALSE, FALSE>>}

\* variant: the CSV is made from the rows of the chart
PostStopExportsChart(ss, num_points, image) ==
    LET rows  == ss.traffic_data
        drawn == IF ~ss.monitoring /\ rows # << >>
                 THEN <<Draw(Chart(LastRows(rows, num_points), num_points)), Export>>
                 ELSE << >>
    IN  IF drawn # << >> /\ ~image
        THEN [steps |-> drawn, ends |-> "raise"]
        ELSE [steps |-> drawn \o (IF rows # << >>
                                  THEN <<Offer(to_csv(LastRows(rows, num_points)))>>
                                  ELSE <<Get>>),
              ends  |-> "end"]

\* lines 271-278 on the session state they find: the chart of the last
\* num_points samples once monitoring is off, then the CSV of all samples,
\* each only when there are samples.  plot_graph is called outside any try:
\* when fig.to_image raises, the run ends there with the chart drawn and no
\* CSV offered.  With no samples the lines only read st.session_state.
PostStop(ss, num_points, image) ==
    LET rows  == ss.traffic_data
        drawn == IF ~ss.monitoring /\ rows # << >>
                 THEN <<Draw(Chart(LastRows(rows, num_points), num_points)), Export>>
                 ELSE << >>
    IN  IF drawn # << >> /\ ~image
        THEN [steps |-> drawn, ends |-> "raise"]
        ELSE [steps |-> drawn \o (IF rows # << >> THEN <<Offer(to_csv(rows))>>
                                  ELSE <<Get>>),
              ends  |-> "end"]

\* what a tick tells the user on the way it took: the st.warning of lines
\* 235, 240 and 245 (without the elapsed time the first one quotes), the
\* st.error of line 268, and nothing on the warm-up way (lines 214-220) and
\* on the accepting way (lines 249-265)
Message(outcome) ==
    CASE outcome = "ElapsedOutOfRange" -> "tempo fora do intervalo. Ignorado."
      [] outcome = "NegativeDelta"     -> "Delta SNMP negativo. Ignorando coleta."
      [] outcome = "ZeroDelta"         -> "Coleta sem variacao. Ignorada."
      [] outcome \in {"FetchError", "TypeError", "ExportError"}
                                       -> "Erro durante o monitoramento"
      [] OTHER -> ""

\* a tick that ends in time.sleep(1); st.rerun(): nothing below it runs.
\* st.rerun() raises a BaseException, which "except Exception" lets through.
Reran(steps, outcome) == [steps |-> steps, ends |-> "rerun", outcome |-> outcome]

\* a tick in which an exception is raised after the steps done, with the
\* session state ss: the except clause, lines 267-269, shows the error and
\* then turns monitoring off, and the run goes on through lines 271-278
Raised(steps, ss, outcome, num_points, image) ==
    LET stopped == [ss EXCEPT !.monitoring = FALSE]
        post    == PostStop(stopped, num_points, image)
    IN  [steps   |-> steps \o <<Say(Message(outcome)), Set("monitoring", FALSE)>>
                          \o post.steps,
         ends    |-> post.ends,
         outcome |-> outcome]

\* lines 215-218: the first collection only seeds the baseline
FirstCollection(fetch, current_time) ==
    <<Set("prev_in", fetch.oct_in),
      Set("prev_out", fetch.oct_out),
      Set("prev_time", current_time),
      Set("first_collection_skipped", TRUE)>>

\* lines 226-228: the reading becomes the baseline before any check
StoreBaseline(fetch, current_time) ==
    <<Set("prev_in", fetch.oct_in),
      Set("prev_out", fetch.oct_out),
      Set("prev_time", current_time)>>

\* lines 252-259: the sample of an accepted pair
Sample(fetch, current_time, diff_in, diff_out, time_diff) ==
    [timestamp  |-> strftime(current_time),
     in         |-> Mbps(diff_in, time_diff),
     out        |-> Mbps(diff_out, time_diff),
     oct_in     |-> fetch.oct_in,
     oct_out    |-> fetch.oct_out,
     delta_time |-> DeltaTime(time_diff)]

\* variant: only the lower end is checked
ElapsedTooShort(time_diff) == time_diff < MinElapsed

\* line 234
ElapsedOutOfRange(time_diff) == time_diff < MinElapsed \/ time_diff > MaxElapsed

\* variant: "and" for "or"
NegativeDeltaBoth(diff_in, diff_out) == diff_in < 0 /\ diff_out < 0

\* line 239
NegativeDelta(diff_in, diff_out) == diff_in < 0 \/ diff_out < 0

\* variant: the check is left out
ZeroDeltaUnchecked(diff_in, diff_out) == FALSE

\* line 244
ZeroDelta(diff_in, diff_out) == diff_in = 0 /\ diff_out = 0

\* lines 208-269 with monitoring on: the steps of one tick and the way it
\* ends when no user event ends it sooner.  ss is the session state at line
\* 208, answer is what the agent returns for the selected interface,
\* current_time is datetime.now(), image is what fig.to_image does.  The
\* deltas are taken from the baseline read at lines 222-224, before the
\* writes of lines 226-228.
MonitorTick(ss, answer, current_time, num_points, image) ==
    LET fetch == get_traffic_in_out(ss.session, answer)
    IN  IF ~fetch.ok
        THEN Raised(<<Fetch(fetch)>>, ss, "FetchError", num_points, image[1])
        ELSE IF ~ss.first_collection_skipped
        THEN Reran(<<Fetch(fetch)>> \o FirstCollection(fetch, current_time), "FirstSample")
        ELSE
        LET stored == [ss EXCEPT !.prev_in = fetch.oct_in,
                                 !.prev_out = fetch.oct_out,
                                 !.prev_time = current_time]
            read   == <<Fetch(fetch)>> \o StoreBaseline(fetch, current_time)
        IN  IF ss.prev_time = None
            THEN Raised(read, stored, "TypeError", num_points, image[1])
            ELSE
            LET time_diff == current_time.us - ss.prev_time.us
                diff_in   == fetch.oct_in - ss.prev_in
                diff_out  == fetch.oct_out - ss.prev_out
                sample    == Sample(fetch, current_time, diff_in, diff_out, time_diff)
                appended  == [stored EXCEPT !.traffic_data = Append(@, sample)]
                plotted   == read \o <<AppendSample(sample),
                                       Draw(Chart(LastRows(appended.traffic_data,
                                                           num_points), num_points)),
                                       Export>>
            IN  IF ElapsedOutOfRange(time_diff)
                THEN Reran(read \o <<Say(Message("ElapsedOutOfRange"))>>,
                           "ElapsedOutOfRange")
                ELSE IF NegativeDelta(diff_in, diff_out)
                THEN Reran(read \o <<Say(Message("NegativeDelta"))>>, "NegativeDelta")
                ELSE IF ZeroDelta(diff_in, diff_out)
                THEN Reran(read \o <<Say(Message("ZeroDelta"))>>, "ZeroDelta")
                ELSE IF image[1]
                THEN Reran(plotted, "Accept")
                ELSE Raised(plotted, appended, "ExportError", num_points, image[2])

\* what a run has done so far: the session state and what is on the page
View(ss) ==
    [state |-> ss, message |-> "", chart |-> None, csv |-> << >>, fetched |-> "none"]

\* one step done
Effect(view, step) ==
    CASE step.op = "set" ->
            [view EXCEPT !.state = [@ EXCEPT ![step.key] = step.value]]
      [] step.op = "append" ->
            [view EXCEPT !.state.traffic_data = Append(@, step.sample)]
      [] step.op = "fetch" -> [view EXCEPT !.fetched = step.result]
      [] step.op = "say"   -> [view EXCEPT !.message = step.text]
      [] step.op = "draw"  -> [view EXCEPT !.chart = step.chart]
      [] step.op = "offer" -> [view EXCEPT !.csv = step.csv]
      [] OTHER             -> view

\* the first done of the steps done, in their order
RECURSIVE Run(_, _, _)
Run(view, steps, done) ==
    IF done = 0 THEN view ELSE Effect(Run(view, steps, done - 1), steps[done])

\* ------------------------------------------------------------------------
\* State
\* ------------------------------------------------------------------------

VARIABLES
    session_state,   \* st.session_state, lines 129-139
    selected_name,   \* the "Interface" selectbox, line 185 ("" while not shown)
    chart,           \* what the current run drew in chart_container, if anything
    csv,             \* the rows offered by "Baixar CSV" in the current run
    pc,              \* "wait": between two halves of runs; "monitor": at line 208
    rerun,           \* the last run ended in st.rerun()
    outcome,         \* history: the way the tick of the current run took
    fetched,         \* history: the counter fetch of the current run
    last_fetch,      \* history: the reading the current run fetched, if any
    prev_hist,       \* history: where the stored baseline was read
    mixed,           \* history: a sample of the window has its two readings
                     \* from two interfaces
    first_pending,   \* history: Iniciar was clicked and no tick has run since
    message,         \* what the tick of the current run told the user, "" if nothing
    interrupted,     \* the last run was ended by a user event, whose run is due
    raised,          \* the last run ended in an exception that nothing caught
    cuts,            \* history: how many runs a user event has ended so far
    args,            \* the arguments of a function called on its own
    returned         \* what that call returned

\* the variables of the running script
script == <<session_state, selected_name, chart, csv, pc, rerun,
            outcome, fetched, last_fetch, prev_hist, mixed, first_pending,
            message, interrupted, raised, cuts>>

vars == <<session_state, selected_name, chart, csv, pc, rerun,
          outcome, fetched, last_fetch, prev_hist, mixed, first_pending,
          message, interrupted, raised, cuts, args, returned>>

\* the values the "Pontos no grafico" slider, line 206, can be at in a run
SliderChoices == SliderMin..SliderMax

\* what the agent may answer to one counter fetch
Answers == {FetchFailed} \cup {Reading(c[1], c[2]) : c \in Counters}

Range(f) == {f[k] : k \in DOMAIN f}

\* the interface a reading is taken from: the agent and the ifIndex
Source(ss, name) ==
    [host  |-> IF ss.session = None THEN << >> ELSE ss.session.hostname,
     index |-> IF name \in Range(ss.interfaces)
               THEN selected_index(ss.interfaces, name) ELSE 0]

\* no one interface
NoSource == [host |-> << >>, index |-> 0]

\* st.selectbox, line 185: shown only while there are interfaces; it keeps
\* its value while its options stay the same and falls back to the first
\* option when they change
selectbox(old_interfaces, interfaces, name) ==
    IF interfaces = << >> THEN ""
    ELSE IF interfaces = old_interfaces /\ name \in Range(interfaces) THEN name
    ELSE interfaces[1]

\* the state after the first run of the script, before any user event
Booted ==
    /\ session_state = InitialSessionState
    /\ selected_name = ""
    /\ chart = None
    /\ csv = << >>
    /\ pc = "wait"
    /\ rerun = FALSE
    /\ outcome = "None"
    /\ fetched = "none"
    /\ last_fetch = None
    /\ prev_hist = [src |-> NoSource]
    /\ mixed = FALSE
    /\ first_pending = FALSE
    /\ message = ""
    /\ interrupted = FALSE
    /\ raised = FALSE
    /\ cuts = 0

Init ==
    /\ Booted
    /\ args = None
    /\ returned = None

\* ------------------------------------------------------------------------
\* The upper half of a run, lines 129-208
\* ------------------------------------------------------------------------

\* The upper half of a run whose handler, if a button was clicked, makes the
\* writes given, starting from ss.  A pending user event ends the run after
\* done of the writes; one that arrives after the last of them ends it at a later
\* step of the upper half (st.success, the reads of lines 184-186 and 208,
\* the widgets), line 210 never reached.  With no event pending the run goes
\* on to the lower half when the interface list is not empty (line 184).
\* selected_name is the value the selectbox has when it is next drawn.
UpperHalf(ss, writes, name, done, pending) ==
    /\ pc = "wait"
    /\ pending \/ done = Len(writes)
    /\ pending => cuts < MaxCuts
    /\ cuts' = IF pending THEN cuts + 1 ELSE cuts
    /\ LET after == Run(View(ss), writes, done).state
       IN  /\ session_state' = after
           /\ selected_name' = selectbox(session_state.interfaces, after.interfaces, name)
           /\ pc' = IF after.interfaces # << >> /\ ~pending THEN "monitor" ELSE "wait"
           /\ mixed' = (mixed /\ after.traffic_data # << >>)
    /\ chart' = None
    /\ csv' = << >>
    /\ rerun' = FALSE
    /\ outcome' = "None"
    /\ fetched' = "none"
    /\ message' = ""
    /\ last_fetch' = None
    /\ interrupted' = pending
    /\ raised' = FALSE
    /\ UNCHANGED <<args, returned>>

ClickListar(ip, answers, pending) ==
    \E done \in 0..Len(Listar(ip, answers)) :
       /\ UpperHalf(session_state, Listar(ip, answers), selected_name, done, pending)
       /\ UNCHANGED <<prev_hist, first_pending>>

ClickLimpar(pending) ==
    \E done \in 0..Len(Limpar) :
       /\ UpperHalf(session_state, Limpar, selected_name, done, pending)
       /\ UNCHANGED <<prev_hist, first_pending>>

\* Iniciar and Parar are drawn only while there are interfaces, line 184.
\* The start takes place with the first write of Iniciar.
ClickIniciar(pending) ==
    /\ session_state.interfaces # << >>
    /\ \E done \in 0..Len(Iniciar) :
          /\ UpperHalf(session_state, Iniciar, selected_name, done, pending)
          /\ first_pending' = IF done = 0 THEN first_pending ELSE TRUE
          /\ UNCHANGED prev_hist

ClickParar(pending) ==
    /\ session_state.interfaces # << >>
    /\ \E done \in 0..Len(Parar) :
          /\ UpperHalf(session_state, Parar, selected_name, done, pending)
          /\ UNCHANGED <<prev_hist, first_pending>>

\* the user picks another interface of the list
SelectInterface(name, pending) ==
    /\ name \in Range(session_state.interfaces)
    /\ name # selected_name
    /\ UpperHalf(session_state, << >>, name, 0, pending)
    /\ UNCHANGED <<prev_hist, first_pending>>

\* a run with no button clicked: the rerun asked for by st.rerun(), or any
\* other widget touched
Rerun(pending) ==
    /\ UpperHalf(session_state, << >>, selected_name, 0, pending)
    /\ UNCHANGED <<prev_hist, first_pending>>

\* ------------------------------------------------------------------------
\* The lower half of a run, lines 210-278
\* ------------------------------------------------------------------------

\* the lower half does the first done of its steps: all of them when no
\* user event arrives, and then it ends the way the path says
LowerHalf(path, done) ==
    LET view == Run(View(session_state), path.steps, done)
        all  == done = Len(path.steps)
    IN  /\ ~all => cuts < MaxCuts
        /\ cuts' = IF all THEN cuts ELSE cuts + 1
        /\ Len(view.state.traffic_data) <= MaxSamples
        /\ session_state' = view.state
        /\ message' = view.message
        /\ chart' = view.chart
        /\ csv' = view.csv
        /\ fetched' = view.fetched
        /\ interrupted' = ~all
        /\ rerun' = (all /\ path.ends = "rerun")
        /\ raised' = (all /\ path.ends = "raise")
        /\ pc' = "wait"
        /\ UNCHANGED <<selected_name, args, returned>>

\* monitoring is on: one tick, ended by a user event after done of its
\* steps or not at all.  The history of the baseline follows its three
\* writes: once all are done it was read here; a sample appended has its
\* first reading from where the baseline was read and its second from here.
Tick(answer, current_time, num_points, image) ==
    /\ pc = "monitor"
    /\ session_state.monitoring
    /\ LET here == Source(session_state, selected_name)
           path == MonitorTick(session_state, answer, current_time, num_points, image)
           ok   == get_traffic_in_out(session_state.session, answer).ok
       IN  \E done \in 0..Len(path.steps) :
              /\ LowerHalf(path, done)
              /\ outcome' = IF done = 0 THEN "None" ELSE path.outcome
              /\ last_fetch' = IF ok /\ done >= 1
                               THEN [oct_in |-> answer.oct_in,
                                     oct_out |-> answer.oct_out,
                                     time |-> current_time]
                               ELSE None
              /\ prev_hist' = IF ~ok \/ done <= 1 THEN prev_hist
                              ELSE IF done >= 4 \/ prev_hist.src = here
                              THEN [src |-> here]
                              ELSE [src |-> NoSource]
              /\ mixed' = (mixed \/ (/\ Len(session_state'.traffic_data)
                                          > Len(session_state.traffic_data)
                                       /\ prev_hist.src # here))
              /\ first_pending' = IF done = 0 THEN first_pending ELSE FALSE

\* monitoring is off: the last chart and the CSV, lines 271-278
Render(num_points, image) ==
    /\ pc = "monitor"
    /\ ~session_state.monitoring
    /\ LET path == PostStop(session_state, num_points, image)
       IN  \E done \in 0..Len(path.steps) : LowerHalf(path, done)
    /\ UNCHANGED <<outcome, last_fetch, prev_hist, mixed, first_pending>>

Next ==
    \/ \E ip \in IpInputs, answers \in BOOLEAN, pending \in BOOLEAN :
          ClickListar(ip, answers, pending)
    \/ \E pending \in BOOLEAN : ClickLimpar(pending)
    \/ \E pending \in BOOLEAN : ClickIniciar(pending)
    \/ \E pending \in BOOLEAN : ClickParar(pending)
    \/ \E name \in Range(session_state.interfaces), pending \in BOOLEAN :
          SelectInterface(name, pending)
    \/ \E pending \in BOOLEAN : Rerun(pending)
    \/ \E answer \in Answers, current_time \in Clock, num_points \in SliderChoices,
          image \in ToImage :
          Tick(answer, datetime(current_time), num_points, image)
    \/ \E num_points \in SliderChoices, image \in BOOLEAN : Render(num_points, image)

Spec == Init /\ [][Next]_vars

\* ------------------------------------------------------------------------
\* Properties
\* ------------------------------------------------------------------------

\* a step that is the tick of a run
TickStep == pc = "monitor" /\ session_state.monitoring /\ pc' = "wait"

\* the previous-reading slot
Baseline(ss) == <<ss.prev_in, ss.prev_out, ss.prev_time>>

\* the reading a tick fetched, as a baseline
ReadingOf(fetch) == <<fetch.oct_in, fetch.oct_out, fetch.time>>

\* the verdict the validation rules give on the pair (stored baseline, reading
\* fetched by this step), for a tick whose fetch succeeded
RuleElapsed == last_fetch'.time.us - session_state.prev_time.us

RuleDeltaIn == last_fetch'.oct_in - session_state.prev_in

RuleDeltaOut == last_fetch'.oct_out - session_state.prev_out

RuleFirstSample == ~session_state.first_collection_skipped

RuleRejects ==
    \/ RuleFirstSample
    \/ RuleElapsed < MinElapsed \/ RuleElapsed > MaxElapsed
    \/ RuleDeltaIn < 0 \/ RuleDeltaOut < 0
    \/ (RuleDeltaIn = 0 /\ RuleDeltaOut = 0)

Window == session_state.traffic_data

\* the six columns of a stored sample
Columns(sample) ==
    <<sample.timestamp, sample.in, sample.out,
      sample.oct_in, sample.oct_out, sample.delta_time>>

\* C1 as stated: the window never holds more samples than the slider value N
\* of the run that drew it
C1_WindowWithinN == chart # None => Len(Window) <= chart.num_points

\* the rows of a chart are the most recent min(N, length) samples of the
\* window, in their order, N being the slider value of the run
ChartShowsLastN ==
    chart # None =>
        LET n == Len(chart.rows)
        IN  /\ n <= chart.num_points
            /\ n = IF Len(Window) <= chart.num_points THEN Len(Window) ELSE chart.num_points
            /\ \A i \in 1..n : chart.rows[i] = Window[Len(Window) - n + i]

\* C1 as amended: the slider value N bounds what is drawn, not what is kept.
\* The window is never trimmed: a step leaves it as it is, appends one sample
\* at its end, or (start, clear) empties it; and every chart drawn holds
\* exactly the most recent min(N, length) samples, in order
C1_ChartWithinN ==
    [][/\ ChartShowsLastN'
       /\ \/ Window' = Window
          \/ Window' = << >>
          \/ /\ Len(Window') = Len(Window) + 1
             /\ SubSeq(Window', 1, Len(Window)) = Window]_vars

\* C1 witness: a chart drawn from a window longer than N
C1_Witness == chart # None /\ Len(Window) > chart.num_points

\* the step appended one sample, that of the reading it fetched
AppendedOne ==
    /\ Len(Window') = Len(Window) + 1
    /\ SubSeq(Window', 1, Len(Window)) = Window
    /\ Window'[Len(Window')].oct_in = last_fetch'.oct_in
    /\ Window'[Len(Window')].oct_out = last_fetch'.oct_out
    /\ Window'[Len(Window')].timestamp = strftime(last_fetch'.time)

\* C2 as stated: a tick with a stored previous reading whose elapsed time is
\* within [0.5, 3.0] s, with no negative delta and not both deltas zero, is
\* accepted and appends exactly one sample, that of the reading
C2_ValidPairAppendsOne ==
    [][(TickStep /\ fetched' = "ok" /\ ~RuleRejects) => AppendedOne]_vars

\* C3: a tick that the rules reject (first sample, elapsed out of range, a
\* negative delta, both deltas zero) leaves the window as it was
C3_RejectKeepsWindow ==
    [][(TickStep /\ fetched' = "ok" /\ RuleRejects) => Window' = Window]_vars

\* C3 witness: a tick rejected for a negative delta, the warning shown,
\* while the window held samples
C3_Witness ==
    /\ outcome = "NegativeDelta"
    /\ message = Message("NegativeDelta")
    /\ Len(Window) >= 1

\* C4: the first tick after a start command, when no user event ends it, is
\* rejected as FirstSample, appends nothing, and leaves the reading it
\* fetched as the baseline
C4_FirstTickSeedsBaseline ==
    [][(TickStep /\ first_pending /\ fetched' = "ok" /\ ~interrupted')
       => /\ outcome' = "FirstSample"
          /\ Window' = Window
          /\ Baseline(session_state') = ReadingOf(last_fetch')]_vars

\* C5: every tick that fetched a reading leaves it, all of it, as the
\* baseline, so that the next tick compares with the reading fetched just
\* before it
C5_BaselineIsPrecedingReading ==
    [][(TickStep /\ fetched' = "ok")
       => Baseline(session_state') = ReadingOf(last_fetch')]_vars

\* C6: a start command empties the window and invalidates the baseline:
\* from the start to the first tick after it the window holds no sample,
\* and the warm-up flag is off, so that the baseline stored before the start
\* is not used
C6_StartResetsHistory ==
    first_pending => Window = << >> /\ ~session_state.first_collection_skipped

\* C7: every sample of the window is derived from two readings of the same
\* interface of the same target
C7_SameInterface == ~mixed

\* C8 as stated: a tick whose fetch fails turns monitoring off, asks for no
\* rerun, and leaves the window and the baseline as they were
C8_FetchFailureStops ==
    [][(TickStep /\ fetched' = "failed")
       => /\ ~session_state'.monitoring
          /\ ~rerun'
          /\ Window' = Window
          /\ Baseline(session_state') = Baseline(session_state)
          /\ session_state'.first_collection_skipped
                = session_state.first_collection_skipped]_vars

\* C9: a tick whose fetch succeeded, whether warm-up, rejected or accepted,
\* leaves monitoring on
C9_OnlyFetchFailureStops == fetched = "ok" => session_state.monitoring

\* C10: once monitoring is off the window is kept, by the stop itself (the
\* stop command, a fetch failure) and by every later run short of a clear or
\* a start, and a run that reaches its end with monitoring off draws the
\* last samples and offers all of them as CSV; a run that ends sooner (a
\* user event, fig.to_image raising) draws and offers nothing else
C10_StopKeepsWindow ==
    [][(/\ ~session_state'.monitoring
        /\ session_state'.interfaces # << >>
        /\ fetched' # "ok")
       => /\ Window' = Window
          /\ (pc = "monitor" /\ Window' # << >> /\ ~interrupted' /\ ~raised') =>
                /\ csv' = to_csv(Window')
                /\ chart' # None
          /\ chart' # None => chart'.rows = LastRows(Window', chart'.num_points)
          /\ csv' # << >> => csv' = to_csv(Window')]_vars

\* C10 witness: samples still there, drawn and exported after a stop
C10_Witness ==
    /\ pc = "wait"
    /\ ~session_state.monitoring
    /\ ~interrupted
    /\ ~raised
    /\ Len(Window) >= 1
    /\ csv # << >>
    /\ chart # None

\* C11: drawing the last L samples takes them from the end of the window in
\* their order and takes nothing away from the window, whatever L is: the
\* samples held before the run are all still there after it, and the CSV of
\* a run that reaches its end with monitoring off (no user event ends it,
\* fig.to_image does not raise) has every one of them, as has any CSV offered
C11_SnapshotKeepsWindow ==
    [][pc = "monitor"
       => /\ chart' # None =>
                /\ Len(chart'.rows) =
                      (IF chart'.num_points < Len(Window')
                       THEN chart'.num_points ELSE Len(Window'))
                /\ \A i \in 1..Len(chart'.rows) :
                      chart'.rows[i] = Window'[Len(Window') - Len(chart'.rows) + i]
                /\ Len(Window') >= Len(Window)
                /\ SubSeq(Window', 1, Len(Window)) = Window
          /\ (/\ ~session_state'.monitoring
              /\ Window' # << >>
              /\ ~interrupted'
              /\ ~raised') => csv' # << >>
          /\ csv' # << >> =>
                /\ Len(csv') = Len(Window')
                /\ \A i \in 1..Len(Window') : csv'[i] = Columns(Window'[i])]_vars

\* C11 witness: a run that ended with monitoring off drew fewer samples
\* than the window holds and exported them all
C11_Witness ==
    /\ chart # None
    /\ ~session_state.monitoring
    /\ Len(chart.rows) < Len(Window)
    /\ Len(csv) = Len(Window)

\* ------------------------------------------------------------------------
\* plot_graph (lines 44-126): the unit of the chart
\* ------------------------------------------------------------------------

\* Series.max() of a column of the batch
ColumnMax(column) == CHOOSE v \in Range(column) : \A w \in Range(column) : w <= v

\* max(a, b)
max(a, b) == IF a >= b THEN a ELSE b

\* df[col] / factor, lines 62-65, in hundred-thousandths of the unit: a
\* stored value of h hundredths of Mbps is 1000 * h hundred-thousandths of
\* a Mbps, and that over the factor
Display(column, factor) ==
    [i \in 1..Len(column) |-> (1000 * column[i]) \div factor]

\* variant: Gbps only above 1000 Mbps
plot_graph_above(df, monitor_in, monitor_out) ==
    IF df = << >> THEN None
    ELSE
    LET col_in  == [i \in 1..Len(df) |-> df[i].in]
        col_out == [i \in 1..Len(df) |-> df[i].out]
        max_val == max(IF monitor_in THEN ColumnMax(col_in) ELSE 0,
                       IF monitor_out THEN ColumnMax(col_out) ELSE 0)
        factor  == IF max_val > GbpsThreshold THEN GbpsFactor ELSE 1
    IN  [unit        |-> IF max_val > GbpsThreshold THEN "Gbps" ELSE "Mbps",
         factor      |-> factor,
         traces      |-> {d \in {"in"} : monitor_in} \cup {d \in {"out"} : monitor_out},
         in_display  |-> IF monitor_in THEN Display(col_in, factor) ELSE << >>,
         out_display |-> IF monitor_out THEN Display(col_out, factor) ELSE << >>]

\* lines 45-65: nothing is drawn for an empty batch; otherwise the unit and
\* the factor follow from the largest value of the enabled directions, and
\* each enabled direction gets its column of displayed values and its trace
plot_graph(df, monitor_in, monitor_out) ==
    IF df = << >> THEN None
    ELSE
    LET col_in  == [i \in 1..Len(df) |-> df[i].in]
        col_out == [i \in 1..Len(df) |-> df[i].out]
        max_val == max(IF monitor_in THEN ColumnMax(col_in) ELSE 0,
                       IF monitor_out THEN ColumnMax(col_out) ELSE 0)
        factor  == IF max_val >= GbpsThreshold THEN GbpsFactor ELSE 1
    IN  [unit        |-> IF max_val >= GbpsThreshold THEN "Gbps" ELSE "Mbps",
         factor      |-> factor,
         traces      |-> {d \in {"in"} : monitor_in} \cup {d \in {"out"} : monitor_out},
         in_display  |-> IF monitor_in THEN Display(col_in, factor) ELSE << >>,
         out_display |-> IF monitor_out THEN Display(col_out, factor) ELSE << >>]

\* the stored rates of the batches: 500, 999.99, 1000 and 1200 Mbps
Rates == {50000, 99999, 100000, 120000}

\* the columns of a sample that plot_graph computes with
Rows == [in : Rates, out : Rates]

Batches == UNION {[1..n -> Rows] : n \in 1..MaxBatch}

\* plot_graph called on its own: a non-empty batch and the two checkboxes
\* "Monitorar entrada" and "Monitorar saida", lines 189-190
InitUnits ==
    /\ Booted
    /\ args \in [df : Batches, monitor_in : BOOLEAN, monitor_out : BOOLEAN]
    /\ returned = None

CallPlotGraph ==
    /\ returned = None
    /\ returned' = plot_graph(args.df, args.monitor_in, args.monitor_out)
    /\ UNCHANGED <<script, args>>

SpecUnits == InitUnits /\ [][CallPlotGraph]_vars

\* the stored values of the enabled directions of a batch
EnabledValues(call) ==
    {call.df[i].in : i \in {j \in 1..Len(call.df) : call.monitor_in}}
       \cup {call.df[i].out : i \in {j \in 1..Len(call.df) : call.monitor_out}}

\* C12: the unit is Gbps with factor 1000 exactly when some stored value of
\* an enabled direction of the batch is at least 1000 Mbps, otherwise Mbps
\* with factor 1; every displayed value of an enabled direction is the
\* stored value divided by the factor
C12_UnitFollowsMaximum ==
    returned # None =>
       LET giga == \E v \in EnabledValues(args) : v >= 100 * 1000
       IN  /\ returned.unit = (IF giga THEN "Gbps" ELSE "Mbps")
           /\ returned.factor = (IF giga THEN 1000 ELSE 1)
           /\ args.monitor_in <=> "in" \in returned.traces
           /\ args.monitor_out <=> "out" \in returned.traces
           /\ args.monitor_in =>
                 /\ Len(returned.in_display) = Len(args.df)
                 /\ \A i \in 1..Len(args.df) :
                       returned.in_display[i] * returned.factor = 1000 * args.df[i].in
           /\ args.monitor_out =>
                 /\ Len(returned.out_display) = Len(args.df)
                 /\ \A i \in 1..Len(args.df) :
                       returned.out_display[i] * returned.factor = 1000 * args.df[i].out

\* C12 witness: a batch of two samples whose largest enabled value is
\* exactly 1000 Mbps, drawn in Gbps, the other direction being off and larger
C12_Witness ==
    /\ returned # None
    /\ returned.unit = "Gbps"
    /\ Len(args.df) = 2
    /\ args.monitor_in /\ ~args.monitor_out
    /\ \A i \in 1..2 : args.df[i].in <= 100000
    /\ \E i \in 1..2 : args.df[i].out > 100000

\* ------------------------------------------------------------------------
\* The arithmetic of one tick, over more readings
\* ------------------------------------------------------------------------

\* counter values read after a baseline of (0, 0): 125000 and 62500 octets
\* are 1.0 and 0.5 Mbps over one second; 46878 octets over 1.000064 s and
\* 633125 octets over one second are half way between two hundredths
OctetsRead == {0, 46878, 62500, 125000, 633125}

\* wall-clock instants read after a baseline at 0: either side of the two
\* ends of the accepted interval, and between them
ClockRead == {499999, 500000, 1000000, 1000064, 2178500, 3000000, 3000001}

\* the session state once all of the steps are done
Done(ss, steps) == Run(View(ss), steps, Len(steps)).state

\* the session after Listar on a device with one interface and Iniciar
Started == Done(Done(InitialSessionState, Listar(IpB, TRUE)), Iniciar)

\* the session after a warm-up tick that read (0, 0) at instant 0
WarmedUp ==
    Done(Started,
         MonitorTick(Started, Reading(0, 0), datetime(0), SliderMin,
                     <<TRUE, TRUE>>).steps)

\* the rerun after that warm-up tick, at line 208
InitRates ==
    /\ session_state = WarmedUp
    /\ selected_name = WarmedUp.interfaces[1]
    /\ chart = None
    /\ csv = << >>
    /\ pc = "monitor"
    /\ rerun = FALSE
    /\ outcome = "None"
    /\ fetched = "none"
    /\ last_fetch = None
    /\ prev_hist = [src |-> Source(WarmedUp, WarmedUp.interfaces[1])]
    /\ mixed = FALSE
    /\ first_pending = FALSE
    /\ message = ""
    /\ interrupted = FALSE
    /\ raised = FALSE
    /\ cuts = 0
    /\ args = None
    /\ returned = None

NextRates ==
    \E oct_in \in OctetsRead, oct_out \in OctetsRead,
       current_time \in ClockRead, num_points \in SliderChoices,
       image \in ToImage :
          Tick(Reading(oct_in, oct_out), datetime(current_time), num_points, image)

SpecRates == InitRates /\ [][NextRates]_vars

\* h is the integer nearest to n / d, either one at a tie
Nearest(h, n, d) ==
    /\ 2 * (h * d - n) <= d
    /\ 2 * (n - h * d) <= d

\* C13: the sample appended for an accepted pair stores, for each direction
\* on its own, delta * 8 / (elapsed * 1000000) rounded to two decimals;
\* 125000 and 62500 octets over 1.0 s are stored as 1.0 and 0.5
C13_RateFormula ==
    [][(TickStep /\ Len(Window') = Len(Window) + 1)
       => LET new == Window'[Len(Window')]
          IN  /\ Nearest(new.in, RuleDeltaIn * 8 * 100, RuleElapsed)
              /\ Nearest(new.out, RuleDeltaOut * 8 * 100, RuleElapsed)
              /\ (RuleDeltaIn = 125000 /\ RuleDeltaOut = 62500 /\ RuleElapsed = 1000000)
                    => (new.in = 100 /\ new.out = 50)]_vars

\* C13 witness: the pair of the scenario was accepted and stored
C13_Witness ==
    /\ outcome = "Accept"
    /\ Len(Window) = 1
    /\ Window[1].oct_in = 125000 /\ Window[1].oct_out = 62500
    /\ Window[1].delta_time = 1000
    /\ Window[1].in = 100 /\ Window[1].out = 50

\* ------------------------------------------------------------------------
\* is_valid_ip called on its own
\* ------------------------------------------------------------------------

\* first groups: in range, zero, above 255, with a leading zero, not a
\* number, empty, too long
FirstGroups == {<<"1", "9", "2">>, <<"0">>, <<"2", "5", "6">>, <<"0", "1">>,
                <<"a">>, << >>, <<"1", "2", "3", "4">>}

\* last groups: in range, the largest, above 255, not a number, empty
LastGroups == {<<"1">>, <<"2", "5", "5">>, <<"9", "9", "9">>, <<"a">>, << >>}

\* what may come before and after the four groups
Leading == {<< >>, <<" ">>}

Trailing == {<< >>, <<"\n">>, <<" ">>, <<"\n", "\n">>, <<".">>, <<"x">>}

\* the strings is_valid_ip is called with: four groups with something
\* around them, three groups, five groups, nothing
Addresses ==
    {lead \o Ip(first, <<"1", "6", "8">>, <<"1">>, last) \o trail :
        lead \in Leading, first \in FirstGroups, last \in LastGroups, trail \in Trailing}
      \cup {<<"1", ".", "2", ".", "3">>,
            <<"1", ".", "2", ".", "3", ".", "4", ".", "5">>,
            << >>}

InitIp ==
    /\ Booted
    /\ args \in [ip_address : Addresses]
    /\ returned = None

CallIsValidIp ==
    /\ returned = None
    /\ returned' = [value |-> is_valid_ip(args.ip_address)]
    /\ UNCHANGED <<script, args>>

SpecIp == InitIp /\ [][CallIsValidIp]_vars

\* the whole of s is four groups of one to three decimal digits, separated
\* by dots, each of them a number in 0..255
DottedQuad(s) ==
    /\ FourGroups(s)
    /\ \A i \in 1..4 : IntOfDigits(SplitDots(s)[i]) \in 0..255

\* C14: is_valid_ip returns true exactly for the strings that are, as a
\* whole, four dot-separated groups of 1 to 3 decimal digits, each in
\* 0..255; anything before or after the groups makes the string invalid
C14_ExactlyDottedQuads ==
    returned # None => (returned.value <=> DottedQuad(args.ip_address))

\* C15: no protocol call is made against an address the validation did
\* not accept: Listar with a rejected address writes neither the stored
\* session nor the interface list, the stored session was opened at an
\* accepted address, and a counter fetch went to a stored session
C15_OnlyValidatedAddresses ==
    /\ \A ip \in IpInputs, answers \in BOOLEAN :
          ~is_valid_ip(ip) => Listar(ip, answers) = << >>
    /\ session_state.session # None => is_valid_ip(session_state.session.hostname)
    /\ fetched # "none" => session_state.session # None

\* C15 witness: a tick has fetched from the stored session of the device at
\* IpA, and listing the named host, which would answer, changes nothing
C15_Witness ==
    /\ fetched = "ok"
    /\ session_state.session # None
    /\ session_state.session.hostname = IpA
    /\ ~is_valid_ip(HostName)
    /\ get_interfaces(get_snmp_session(HostName)) # << >>
    /\ Listar(HostName, TRUE) = << >>

\* the reason a message gives for a rejection, "" when it gives none
Reason(text) ==
    CASE text = "tempo fora do intervalo. Ignorado."     -> "ElapsedOutOfRange"
      [] text = "Delta SNMP negativo. Ignorando coleta." -> "NegativeDelta"
      [] text = "Coleta sem variacao. Ignorada."         -> "ZeroDelta"
      [] OTHER -> ""

\* C16 as stated: every tick that fetched and appended nothing is reported
\* with one of the four reasons
C16_EveryRejectionReported ==
    (fetched = "ok" /\ outcome # "Accept")
       => Reason(message)
             \in {"FirstSample", "ElapsedOutOfRange", "NegativeDelta", "ZeroDelta"}

\* C16: a tick rejected after the warm-up is reported with one reason, that
\* of the first failing check in the order elapsed, negative delta, zero
\* delta, unless a user event ends the run before the warning, which is
\* then not shown; the warm-up tick is rejected with no message, and no accepted
\* tick is reported as rejected
C16_FirstFailingCheck ==
    [][(TickStep /\ fetched' = "ok")
       => Reason(message') =
             (IF RuleFirstSample \/ interrupted' THEN ""
              ELSE IF RuleElapsed < MinElapsed \/ RuleElapsed > MaxElapsed
              THEN "ElapsedOutOfRange"
              ELSE IF RuleDeltaIn < 0 \/ RuleDeltaOut < 0 THEN "NegativeDelta"
              ELSE IF RuleDeltaIn = 0 /\ RuleDeltaOut = 0 THEN "ZeroDelta"
              ELSE "")]_vars

\* C16 witness: a tick read (0, 0) at instant 0, so not after its baseline
\* and with no counter above it, and reported the elapsed time
C16_Witness ==
    /\ outcome = "ElapsedOutOfRange"
    /\ ~interrupted
    /\ Reason(message) = "ElapsedOutOfRange"
    /\ last_fetch.time.us = 0
    /\ last_fetch.oct_in = 0
    /\ last_fetch.oct_out = 0

\* C17 as stated: both deltas of an accepted pair are at least 1 octet
C17_BothDeltasPositive ==
    [][(TickStep /\ Len(Window') = Len(Window) + 1)
       => (RuleDeltaIn >= 1 /\ RuleDeltaOut >= 1)]_vars

\* C17: the deltas of an accepted pair are not negative and at least one of
\* them is 1 octet or more; a direction whose counter stood still is
\* stored with the rate 0
C17_DeltasNotBothZero ==
    [][(TickStep /\ Len(Window') = Len(Window) + 1)
       => /\ RuleDeltaIn >= 0 /\ RuleDeltaOut >= 0
          /\ RuleDeltaIn >= 1 \/ RuleDeltaOut >= 1
          /\ RuleDeltaIn = 0 => Window'[Len(Window')].in = 0
          /\ RuleDeltaOut = 0 => Window'[Len(Window')].out = 0]_vars

\* C17 witness: an accepted pair whose outbound counter stood still
C17_Witness ==
    /\ outcome = "Accept"
    /\ Len(Window) >= 1
    /\ Window[Len(Window)].in > 0
    /\ Window[Len(Window)].out = 0
    /\ ~mixed

\* the second of the day a stored timestamp names
SecondOfDay(timestamp) == timestamp[1] * 3600 + timestamp[2] * 60 + timestamp[3]

\* C18: the samples of the window are in chronological order: of any two,
\* the one appended earlier has the strictly earlier timestamp
C18_ChronologicalWindow ==
    \A i, j \in 1..Len(Window) :
       i < j => SecondOfDay(Window[i].timestamp) < SecondOfDay(Window[j].timestamp)

\* C20: while monitoring is on a session is stored and the interface list
\* is not empty; once the warm-up flag is set the baseline timestamp is
\* present, so no tick fails on a missing baseline; no counter fetch was
\* attempted without a stored session
C20_MonitoringHasSession ==
    /\ session_state.monitoring
          => (session_state.session # None /\ session_state.interfaces # << >>)
    /\ session_state.first_collection_skipped => session_state.prev_time # None
    /\ outcome # "TypeError"
    /\ fetched # "none" => session_state.session # None

\* C19: after every tick whose fetch succeeded, warm-up, rejected or
\* accepted, the next run is due: the tick asked for it with st.rerun(), or
\* the user event that ended the tick brings it
C19_LoopGoesOn ==
    [][(TickStep /\ fetched' = "ok") => (rerun' \/ interrupted')]_vars

====
